---- MODULE Spec2Model ----
(***************************************************************************)
(* Model of network_monitor.py: the sampling loop run_monitor, its helpers *)
(* (read_interface_bytes, available_interfaces, default_interface,         *)
(* measure_latency, compute_throughput) and the process exit of main.      *)
(*                                                                         *)
(* Time is counted in whole seconds.  A float that the code computes by a  *)
(* division is kept as the exact fraction [num, den] the expression        *)
(* denotes.  An Optional value is <<>> (None) or <<v>>; the unset          *)
(* --interface is the empty string.                                        *)
(***************************************************************************)
EXTENDS Integers, Sequences, FiniteSets, TLC

VARIABLES
    args,            \* argparse.Namespace: interface, interval, count
    pc,              \* position of the process in run_monitor / its end
    interface,       \* local interface
    previous_bytes,  \* local previous_bytes
    current_bytes,   \* local current_bytes
    total_pings,     \* local total_pings
    lost_pings,      \* local lost_pings
    iterations,      \* local iterations: <<>> is None
    start,           \* local start (t0 of the tick)
    latency,         \* local latency: <<>> is None
    elapsed_arg,     \* third argument of the last compute_throughput call
    download_mbps,   \* local download_mbps
    upload_mbps,     \* local upload_mbps
    output,          \* lines printed on stdout, in order
    exit_code,       \* exit status of the process: <<>> while it runs
    error,           \* the exception that ended the run, "" if none
    failed_at,       \* history: where that exception was raised, "" if none
    clock,           \* time.time()
    prev_start,      \* history: t0 of the preceding tick, <<>> before tick 2
    probe_dur,       \* history: how long the last probe ran
    sleep_dur,       \* history: argument of the last time.sleep call
    read_time,       \* history: clock at the last counter read
    prev_read_time,  \* history: clock at the counter read before that
    reported_bytes,  \* history: snapshot behind the last line printed
    enumerated,      \* history: names default_interface was given, <<>> if none
    initial_bytes,   \* history: the snapshot taken before the loop
    counters_fell,   \* history: did rx / tx ever read lower than the read before
    probe_log        \* history: the result of every probe, in order

vars == <<args, pc, interface, previous_bytes, current_bytes, total_pings,
          lost_pings, iterations, start, latency, elapsed_arg, download_mbps,
          upload_mbps, output, exit_code, error, failed_at, clock, prev_start,
          probe_dur, sleep_dur, read_time, prev_read_time, reported_bytes,
          enumerated, initial_bytes, counters_fell, probe_log>>

\* ------------------------------------------------------------------ bounds

\* Ticks an unbounded loop (no usable --count) is followed for.
MaxTicks == 2

\* ------------------------------------------------------------ environment

None == <<>>

Some(v) == <<v>>

Max(a, b) == IF a >= b THEN a ELSE b

NoBytes == [rx_bytes |-> 0, tx_bytes |-> 0]

Line(name, rx, tx) == [name |-> name, rx |-> rx, tx |-> tx, wellformed |-> TRUE]

\* Contents /proc/net/dev can have at the moment of a read (after the two
\* header lines): the counters of eth0 grow, fall back (reset), the
\* interface disappears, its line is malformed, or the file is unreadable.
ProcFiles ==
    { [readable |-> TRUE,  lines |-> <<Line("lo", 0, 0), Line("eth0", 1000, 500)>>],
      [readable |-> TRUE,  lines |-> <<Line("lo", 0, 0), Line("eth0", 9000, 4500)>>],
      [readable |-> TRUE,  lines |-> <<Line("lo", 0, 0), Line("eth0", 200, 4500)>>],
      [readable |-> TRUE,  lines |-> <<Line("wlan0", 1000, 500), Line("lo", 0, 0),
                                       Line("eth0", 9000, 4500)>>],
      [readable |-> TRUE,  lines |-> <<Line("lo", 0, 0)>>],
      [readable |-> TRUE,  lines |-> <<>>],
      [readable |-> TRUE,  lines |-> <<Line("lo", 0, 0),
                                       [name |-> "eth0", rx |-> 0, tx |-> 0,
                                        wellformed |-> FALSE]>>],
      [readable |-> FALSE, lines |-> <<>>] }

\* Outcomes of one ping subprocess: its return code, the time= value of its
\* stdout (<<>> when stdout has none) and how long the subprocess ran.
ProbeOutcomes ==
    { [returncode |-> 0, time |-> Some(20), dur |-> 1],
      [returncode |-> 0, time |-> None,     dur |-> 1],
      [returncode |-> 1, time |-> None,     dur |-> 4] }

\* Seconds the counter read takes.
ReadCosts == {0, 1}

\* The longest of them.
MaxReadCost == CHOOSE c \in ReadCosts : \A d \in ReadCosts : d <= c

\* Values of the command line.
Interfaces == {"", "eth0", "eth9"}

Intervals == {-1, 0, 3}

Counts == {None, Some(-1), Some(0), Some(1), Some(3)}

\* ----------------------------------------------------------- pure helpers

RECURSIVE FindLine(_, _)
FindLine(lines, name) ==
    IF lines = <<>> THEN None
    ELSE IF Head(lines).name = name THEN Some(Head(lines))
    ELSE FindLine(Tail(lines), name)

\* read_interface_bytes: the counters of the first line named `name`, or the
\* exception raised.
read_interface_bytes(file, name) ==
    IF ~file.readable THEN [err |-> "OSError", bytes |-> NoBytes]
    ELSE LET found == FindLine(file.lines, name) IN
         IF found = None THEN [err |-> "ValueError", bytes |-> NoBytes]
         ELSE IF ~found[1].wellformed THEN [err |-> "IndexError", bytes |-> NoBytes]
         ELSE [err |-> "", bytes |-> [rx_bytes |-> found[1].rx, tx_bytes |-> found[1].tx]]

RECURSIVE Names(_)
Names(lines) ==
    IF lines = <<>> THEN <<>> ELSE <<Head(lines).name>> \o Names(Tail(lines))

\* available_interfaces: the names in file order.
available_interfaces(file) == Names(file.lines)

RECURSIVE FirstNotIn(_, _)
FirstNotIn(names, exclude) ==
    IF names = <<>> THEN None
    ELSE IF Head(names) \in exclude THEN FirstNotIn(Tail(names), exclude)
    ELSE Some(Head(names))

\* default_interface without the exclusion of loopback: the first name.
default_interface_first_name(file) ==
    IF ~file.readable THEN [err |-> "OSError", name |-> ""]
    ELSE LET first == FirstNotIn(available_interfaces(file), {}) IN
         IF first = None THEN [err |-> "RuntimeError", name |-> ""]
         ELSE [err |-> "", name |-> first[1]]

\* default_interface: the first name not excluded, or the exception raised.
default_interface(file) ==
    IF ~file.readable THEN [err |-> "OSError", name |-> ""]
    ELSE LET first == FirstNotIn(available_interfaces(file), {"lo"}) IN
         IF first = None THEN [err |-> "RuntimeError", name |-> ""]
         ELSE [err |-> "", name |-> first[1]]

\* measure_latency: None unless ping returned 0 and printed a time= value.
measure_latency(outcome) ==
    IF outcome.returncode # 0 THEN None ELSE outcome.time

\* compute_throughput without the clamp of a negative delta.
compute_throughput_unclamped(previous, current, interval) ==
    LET rx_delta == current.rx_bytes - previous.rx_bytes
        tx_delta == current.tx_bytes - previous.tx_bytes
    IN  << [num |-> rx_delta * 8, den |-> 1000000 * interval],
           [num |-> tx_delta * 8, den |-> 1000000 * interval] >>

\* compute_throughput: (download, upload) as the fractions the code divides.
compute_throughput(previous, current, interval) ==
    LET rx_delta == Max(current.rx_bytes - previous.rx_bytes, 0)
        tx_delta == Max(current.tx_bytes - previous.tx_bytes, 0)
    IN  << [num |-> rx_delta * 8, den |-> 1000000 * interval],
           [num |-> tx_delta * 8, den |-> 1000000 * interval] >>

\* IntervalOrOne without the `or 1.0`.
IntervalAsGiven(interval) == interval

\* `args.interval or 1.0`
IntervalOrOne(interval) == IF interval = 0 THEN 1 ELSE interval

\* IterationsOf taking any given count as the number of iterations.
IterationsOfAnyCount(count) == count

\* `args.count if args.count and args.count > 0 else None`
IterationsOf(count) ==
    IF count # None /\ count[1] # 0 /\ count[1] > 0 THEN count ELSE None

\* LossPct dividing by the probes that succeeded instead of by all of them.
LossPctOfSucceeded(lost, total) ==
    IF total # 0
    THEN [num |-> lost * 100, den |-> IF total = lost THEN 1 ELSE total - lost]
    ELSE [num |-> 0, den |-> 1]

\* `(lost_pings / total_pings) * 100 if total_pings else 0.0`
LossPct(lost, total) ==
    IF total # 0 THEN [num |-> lost * 100, den |-> total] ELSE [num |-> 0, den |-> 1]

\* SleepFor without the drift correction: the whole interval every tick.
SleepWholeInterval(interval, now, t0) == Max(interval, 0)

\* SleepFor without the clamp at 0.
SleepUnclamped(interval, now, t0) == interval - (now - t0)

\* `max(args.interval - (time.time() - start), 0)`
SleepFor(interval, now, t0) == Max(interval - (now - t0), 0)

NoRate == [num |-> 0, den |-> 1]

Samples == SelectSeq(output, LAMBDA l : l.kind = "sample")

Headers == SelectSeq(output, LAMBDA l : l.kind = "header")

\* ------------------------------------------------------------------ state

Init ==
    /\ args \in [interface : Interfaces, interval : Intervals, count : Counts]
    /\ pc = "resolve"
    /\ interface = ""
    /\ previous_bytes = NoBytes
    /\ current_bytes = NoBytes
    /\ total_pings = 0
    /\ lost_pings = 0
    /\ iterations = None
    /\ start = 0
    /\ latency = None
    /\ elapsed_arg = 0
    /\ download_mbps = NoRate
    /\ upload_mbps = NoRate
    /\ output = <<>>
    /\ exit_code = None
    /\ error = ""
    /\ failed_at = ""
    /\ clock = 0
    /\ prev_start = None
    /\ probe_dur = 0
    /\ sleep_dur = 0
    /\ read_time = 0
    /\ prev_read_time = 0
    /\ reported_bytes = NoBytes
    /\ enumerated = None
    /\ initial_bytes = NoBytes
    /\ counters_fell = [rx |-> FALSE, tx |-> FALSE]
    /\ probe_log = <<>>

\* An exception nobody catches: traceback and exit status 1.
Raise(exc) ==
    /\ pc' = "fatal"
    /\ error' = exc
    /\ failed_at' = pc
    /\ exit_code' = Some(1)

Running == pc \notin {"done", "fatal", "interrupted"}

\* line 133: interface = args.interface or default_interface()
ResolveInterface ==
    /\ pc = "resolve"
    /\ \E file \in ProcFiles :
         LET d == default_interface(file) IN
         IF args.interface # "" THEN
             /\ interface' = args.interface
             /\ pc' = "snapshot"
             /\ UNCHANGED <<error, failed_at, exit_code, enumerated>>
         ELSE IF d.err # "" THEN
             /\ Raise(d.err)
             /\ enumerated' = IF file.readable
                               THEN Some(available_interfaces(file)) ELSE None
             /\ UNCHANGED interface
         ELSE
             /\ interface' = d.name
             /\ enumerated' = Some(available_interfaces(file))
             /\ pc' = "snapshot"
             /\ UNCHANGED <<error, failed_at, exit_code>>
    /\ UNCHANGED <<args, initial_bytes, counters_fell, probe_log,
                   previous_bytes, current_bytes, total_pings, lost_pings,
                   iterations, start, latency, elapsed_arg, download_mbps,
                   upload_mbps, output, clock, prev_start, probe_dur,
                   sleep_dur, read_time, prev_read_time, reported_bytes>>

\* InitialSnapshot with the header line printed before the snapshot is read.
InitialSnapshotAfterHeader ==
    /\ pc = "snapshot"
    /\ output' = Append(output, [kind |-> "header", interface |-> interface])
    /\ \E file \in ProcFiles :
         LET r == read_interface_bytes(file, interface) IN
         IF r.err # "" THEN
             /\ Raise(r.err)
             /\ UNCHANGED <<previous_bytes, read_time, reported_bytes, initial_bytes>>
         ELSE
             /\ previous_bytes' = r.bytes
             /\ read_time' = clock
             /\ reported_bytes' = r.bytes
             /\ initial_bytes' = r.bytes
             /\ pc' = "setup"
             /\ UNCHANGED <<error, failed_at, exit_code>>
    /\ UNCHANGED <<args, enumerated, probe_log, counters_fell, interface,
                   current_bytes, total_pings, lost_pings, iterations, start,
                   latency, elapsed_arg, download_mbps, upload_mbps, clock,
                   prev_start, probe_dur, sleep_dur, prev_read_time>>

\* line 134: previous_bytes = read_interface_bytes(interface)
InitialSnapshot ==
    /\ pc = "snapshot"
    /\ \E file \in ProcFiles :
         LET r == read_interface_bytes(file, interface) IN
         IF r.err # "" THEN
             /\ Raise(r.err)
             /\ UNCHANGED <<previous_bytes, read_time, reported_bytes, initial_bytes>>
         ELSE
             /\ previous_bytes' = r.bytes
             /\ read_time' = clock
             /\ reported_bytes' = r.bytes
             /\ initial_bytes' = r.bytes
             /\ pc' = "setup"
             /\ UNCHANGED <<error, failed_at, exit_code>>
    /\ UNCHANGED <<args, enumerated, probe_log, counters_fell, interface,
                   current_bytes, total_pings, lost_pings, iterations, start,
                   latency, elapsed_arg, download_mbps, upload_mbps, output,
                   clock, prev_start, probe_dur, sleep_dur, prev_read_time>>

\* lines 135-140: the counters, the header line, iterations
Setup ==
    /\ pc = "setup"
    /\ total_pings' = 0
    /\ lost_pings' = 0
    /\ output' = Append(output, [kind |-> "header", interface |-> interface])
    /\ iterations' = IterationsOf(args.count)
    /\ pc' = "test"
    /\ UNCHANGED <<args, enumerated, initial_bytes, counters_fell, probe_log,
                   interface, previous_bytes, current_bytes, start, latency,
                   elapsed_arg, download_mbps, upload_mbps, exit_code, error,
                   failed_at, clock, prev_start, probe_dur, sleep_dur,
                   read_time, prev_read_time, reported_bytes>>

\* LoopTest with the loop condition off by one (>= 0 for > 0).
LoopTestOffByOne ==
    /\ pc = "test"
    /\ iterations = None => total_pings < MaxTicks
    /\ IF iterations = None \/ iterations[1] >= 0
       THEN pc' = "probe" /\ UNCHANGED exit_code
       ELSE pc' = "done" /\ exit_code' = Some(0)
    /\ UNCHANGED <<args, enumerated, initial_bytes, counters_fell, probe_log,
                   interface, previous_bytes, current_bytes, total_pings,
                   lost_pings, iterations, start, latency, elapsed_arg,
                   download_mbps, upload_mbps, output, error, failed_at, clock,
                   prev_start, probe_dur, sleep_dur, read_time, prev_read_time,
                   reported_bytes>>

\* line 141: while iterations is None or iterations > 0; falling out of the
\* loop returns from run_monitor and main, exit status 0.
LoopTest ==
    /\ pc = "test"
    /\ iterations = None => total_pings < MaxTicks
    /\ IF iterations = None \/ iterations[1] > 0
       THEN pc' = "probe" /\ UNCHANGED exit_code
       ELSE pc' = "done" /\ exit_code' = Some(0)
    /\ UNCHANGED <<args, enumerated, initial_bytes, counters_fell, probe_log,
                   interface, previous_bytes, current_bytes, total_pings,
                   lost_pings, iterations, start, latency, elapsed_arg,
                   download_mbps, upload_mbps, output, error, failed_at, clock,
                   prev_start, probe_dur, sleep_dur, read_time, prev_read_time,
                   reported_bytes>>

\* Probe with a failed ping raising (subprocess.run with check=True).
ProbeRaisesOnFailure ==
    /\ pc = "probe"
    /\ start' = clock
    /\ prev_start' = IF total_pings = 0 THEN None ELSE Some(start)
    /\ \E outcome \in ProbeOutcomes :
         /\ latency' = measure_latency(outcome)
         /\ clock' = clock + outcome.dur
         /\ probe_dur' = outcome.dur
         /\ probe_log' = Append(probe_log, latency')
         /\ IF outcome.returncode # 0
            THEN Raise("CalledProcessError")
            ELSE pc' = "sleep" /\ UNCHANGED <<exit_code, error, failed_at>>
    /\ total_pings' = total_pings + 1
    /\ lost_pings' = IF latency' = None THEN lost_pings + 1 ELSE lost_pings
    /\ UNCHANGED <<args, enumerated, initial_bytes, counters_fell, interface,
                   previous_bytes, current_bytes, iterations, elapsed_arg,
                   download_mbps, upload_mbps, output, sleep_dur, read_time, prev_read_time,
                   reported_bytes>>

\* Probe with `lost_pings += 1` outside the `if latency is None`.
ProbeAlwaysLost ==
    /\ pc = "probe"
    /\ start' = clock
    /\ prev_start' = IF total_pings = 0 THEN None ELSE Some(start)
    /\ \E outcome \in ProbeOutcomes :
         /\ latency' = measure_latency(outcome)
         /\ clock' = clock + outcome.dur
         /\ probe_dur' = outcome.dur
         /\ probe_log' = Append(probe_log, latency')
    /\ total_pings' = total_pings + 1
    /\ lost_pings' = lost_pings + 1
    /\ pc' = "sleep"
    /\ UNCHANGED <<args, enumerated, initial_bytes, counters_fell, interface,
                   previous_bytes, current_bytes, iterations, elapsed_arg,
                   download_mbps, upload_mbps, output, exit_code, error,
                   failed_at, sleep_dur, read_time, prev_read_time,
                   reported_bytes>>

\* Probe with `total_pings += 1` only for a probe that was answered.
ProbeCountsAnswered ==
    /\ pc = "probe"
    /\ start' = clock
    /\ prev_start' = IF total_pings = 0 THEN None ELSE Some(start)
    /\ \E outcome \in ProbeOutcomes :
         /\ latency' = measure_latency(outcome)
         /\ clock' = clock + outcome.dur
         /\ probe_dur' = outcome.dur
         /\ probe_log' = Append(probe_log, latency')
    /\ total_pings' = IF latency' # None THEN total_pings + 1 ELSE total_pings
    /\ lost_pings' = IF latency' = None THEN lost_pings + 1 ELSE lost_pings
    /\ pc' = "sleep"
    /\ UNCHANGED <<args, enumerated, initial_bytes, counters_fell, interface,
                   previous_bytes, current_bytes, iterations, elapsed_arg,
                   download_mbps, upload_mbps, output, exit_code, error,
                   failed_at, sleep_dur, read_time, prev_read_time,
                   reported_bytes>>

\* lines 142-146: t0, the probe, the loss accumulator
Probe ==
    /\ pc = "probe"
    /\ start' = clock
    /\ prev_start' = IF total_pings = 0 THEN None ELSE Some(start)
    /\ \E outcome \in ProbeOutcomes :
         /\ latency' = measure_latency(outcome)
         /\ clock' = clock + outcome.dur
         /\ probe_dur' = outcome.dur
         /\ probe_log' = Append(probe_log, latency')
    /\ total_pings' = total_pings + 1
    /\ lost_pings' = IF latency' = None THEN lost_pings + 1 ELSE lost_pings
    /\ pc' = "sleep"
    /\ UNCHANGED <<args, enumerated, initial_bytes, counters_fell, interface,
                   previous_bytes, current_bytes, iterations, elapsed_arg,
                   download_mbps, upload_mbps, output, exit_code, error,
                   failed_at, sleep_dur, read_time, prev_read_time,
                   reported_bytes>>

\* line 147: time.sleep(max(args.interval - (time.time() - start), 0))
Sleep ==
    /\ pc = "sleep"
    /\ sleep_dur' = SleepFor(args.interval, clock, start)
    /\ clock' = clock + sleep_dur'
    /\ pc' = "read"
    /\ UNCHANGED <<args, enumerated, initial_bytes, counters_fell, probe_log,
                   interface, previous_bytes, current_bytes, total_pings,
                   lost_pings, iterations, start, latency, elapsed_arg,
                   download_mbps, upload_mbps, output, exit_code, error,
                   failed_at, prev_start, probe_dur, read_time, prev_read_time,
                   reported_bytes>>

\* ReadCounters with the exception caught: the error is noted and the tick
\* goes on with the counters it had.
ReadCountersKeepsStale ==
    /\ pc = "read"
    /\ \E file \in ProcFiles, cost \in ReadCosts :
         LET r == read_interface_bytes(file, interface) IN
         /\ clock' = clock + cost
         /\ IF r.err # "" THEN
                /\ error' = r.err
                /\ failed_at' = pc
                /\ pc' = "report"
                /\ UNCHANGED <<current_bytes, read_time, prev_read_time, exit_code,
                               counters_fell>>
            ELSE
                /\ current_bytes' = r.bytes
                /\ counters_fell' =
                     [rx |-> counters_fell.rx \/ r.bytes.rx_bytes < reported_bytes.rx_bytes,
                      tx |-> counters_fell.tx \/ r.bytes.tx_bytes < reported_bytes.tx_bytes]
                /\ prev_read_time' = read_time
                /\ read_time' = clock'
                /\ pc' = "report"
                /\ UNCHANGED <<error, failed_at, exit_code>>
    /\ UNCHANGED <<args, enumerated, probe_log, initial_bytes, interface,
                   previous_bytes, total_pings, lost_pings, iterations, start,
                   latency, elapsed_arg, download_mbps, upload_mbps, output,
                   prev_start, probe_dur, sleep_dur, reported_bytes>>

\* line 149: current_bytes = read_interface_bytes(interface)
ReadCounters ==
    /\ pc = "read"
    /\ \E file \in ProcFiles, cost \in ReadCosts :
         LET r == read_interface_bytes(file, interface) IN
         /\ clock' = clock + cost
         /\ IF r.err # "" THEN
                /\ Raise(r.err)
                /\ UNCHANGED <<current_bytes, read_time, prev_read_time, counters_fell>>
            ELSE
                /\ current_bytes' = r.bytes
                /\ counters_fell' =
                     [rx |-> counters_fell.rx \/ r.bytes.rx_bytes < reported_bytes.rx_bytes,
                      tx |-> counters_fell.tx \/ r.bytes.tx_bytes < reported_bytes.tx_bytes]
                /\ prev_read_time' = read_time
                /\ read_time' = clock'
                /\ pc' = "report"
                /\ UNCHANGED <<error, failed_at, exit_code>>
    /\ UNCHANGED <<args, enumerated, probe_log, initial_bytes, interface,
                   previous_bytes, total_pings, lost_pings, iterations, start,
                   latency, elapsed_arg, download_mbps, upload_mbps, output,
                   prev_start, probe_dur, sleep_dur, reported_bytes>>

\* Report without line 153: previous_bytes stays the first snapshot.
ReportKeepsPrevious ==
    /\ pc = "report"
    /\ elapsed_arg' = IntervalOrOne(args.interval)
    /\ IF elapsed_arg' = 0 THEN
           /\ Raise("ZeroDivisionError")
           /\ UNCHANGED <<download_mbps, upload_mbps, previous_bytes, output,
                          reported_bytes>>
       ELSE
           LET rates == compute_throughput(previous_bytes, current_bytes, elapsed_arg') IN
           /\ download_mbps' = rates[1]
           /\ upload_mbps' = rates[2]
           /\ previous_bytes' = previous_bytes
           /\ output' = Append(output,
                  [kind |-> "sample",
                   timestamp |-> clock,
                   download_mbps |-> rates[1],
                   upload_mbps |-> rates[2],
                   latency_ms |-> latency,
                   packet_loss_pct |-> LossPct(lost_pings, total_pings)])
           /\ reported_bytes' = current_bytes
           /\ pc' = "dec"
           /\ UNCHANGED <<error, failed_at, exit_code>>
    /\ UNCHANGED <<args, enumerated, initial_bytes, counters_fell, probe_log,
                   interface, current_bytes, total_pings, lost_pings,
                   iterations, start, latency, clock, prev_start, probe_dur,
                   sleep_dur, read_time, prev_read_time>>

\* lines 150-163: the rates, previous_bytes, the loss percentage, the line
Report ==
    /\ pc = "report"
    /\ elapsed_arg' = IntervalOrOne(args.interval)
    /\ IF elapsed_arg' = 0 THEN
           /\ Raise("ZeroDivisionError")
           /\ UNCHANGED <<download_mbps, upload_mbps, previous_bytes, output,
                          reported_bytes>>
       ELSE
           LET rates == compute_throughput(previous_bytes, current_bytes, elapsed_arg') IN
           /\ download_mbps' = rates[1]
           /\ upload_mbps' = rates[2]
           /\ previous_bytes' = current_bytes
           /\ output' = Append(output,
                  [kind |-> "sample",
                   timestamp |-> clock,
                   download_mbps |-> rates[1],
                   upload_mbps |-> rates[2],
                   latency_ms |-> latency,
                   packet_loss_pct |-> LossPct(lost_pings, total_pings)])
           /\ reported_bytes' = current_bytes
           /\ pc' = "dec"
           /\ UNCHANGED <<error, failed_at, exit_code>>
    /\ UNCHANGED <<args, enumerated, initial_bytes, counters_fell, probe_log,
                   interface, current_bytes, total_pings, lost_pings,
                   iterations, start, latency, clock, prev_start, probe_dur,
                   sleep_dur, read_time, prev_read_time>>

\* Decrement that leaves iterations as it was.
DecrementForgotten ==
    /\ pc = "dec"
    /\ iterations' = iterations
    /\ pc' = "test"
    /\ UNCHANGED <<args, enumerated, initial_bytes, counters_fell, probe_log,
                   interface, previous_bytes, current_bytes, total_pings,
                   lost_pings, start, latency, elapsed_arg, download_mbps,
                   upload_mbps, output, exit_code, error, failed_at, clock,
                   prev_start, probe_dur, sleep_dur, read_time, prev_read_time,
                   reported_bytes>>

\* lines 165-166: if iterations is not None: iterations -= 1
Decrement ==
    /\ pc = "dec"
    /\ iterations' = IF iterations # None THEN Some(iterations[1] - 1) ELSE None
    /\ pc' = "test"
    /\ UNCHANGED <<args, enumerated, initial_bytes, counters_fell, probe_log,
                   interface, previous_bytes, current_bytes, total_pings,
                   lost_pings, start, latency, elapsed_arg, download_mbps,
                   upload_mbps, output, exit_code, error, failed_at, clock,
                   prev_start, probe_dur, sleep_dur, read_time, prev_read_time,
                   reported_bytes>>

\* The operator's Ctrl-C: nothing in main or run_monitor catches
\* KeyboardInterrupt, so it ends the process wherever control is, with the
\* status of a process killed by SIGINT.
Interrupt ==
    /\ Running
    /\ pc' = "interrupted"
    /\ error' = "KeyboardInterrupt"
    /\ failed_at' = pc
    /\ exit_code' = Some(130)
    /\ UNCHANGED <<args, enumerated, initial_bytes, counters_fell, probe_log,
                   interface, previous_bytes, current_bytes, total_pings,
                   lost_pings, iterations, start, latency, elapsed_arg,
                   download_mbps, upload_mbps, output, clock, prev_start,
                   probe_dur, sleep_dur, read_time, prev_read_time,
                   reported_bytes>>

Next ==
    \/ ResolveInterface
    \/ InitialSnapshot
    \/ Setup
    \/ LoopTest
    \/ Probe
    \/ Sleep
    \/ ReadCounters
    \/ Report
    \/ Decrement
    \/ Interrupt

Spec == Init /\ [][Next]_vars

\* ------------------------------------------- compute_throughput on its own

\* Arguments compute_throughput is called with.
SnapshotInputs == [rx_bytes : {200, 1000, 9000}, tx_bytes : {500, 4500}]

ElapsedInputs == {-1, 0, 1, 3}

InitCompute ==
    /\ pc = "call"
    /\ previous_bytes \in SnapshotInputs
    /\ current_bytes \in SnapshotInputs
    /\ elapsed_arg \in ElapsedInputs
    /\ args = [interface |-> "", interval |-> 1, count |-> None]
    /\ interface = ""
    /\ total_pings = 0
    /\ lost_pings = 0
    /\ iterations = None
    /\ start = 0
    /\ latency = None
    /\ download_mbps = NoRate
    /\ upload_mbps = NoRate
    /\ output = <<>>
    /\ exit_code = None
    /\ error = ""
    /\ failed_at = ""
    /\ clock = 0
    /\ prev_start = None
    /\ probe_dur = 0
    /\ sleep_dur = 0
    /\ read_time = 0
    /\ prev_read_time = 0
    /\ reported_bytes = NoBytes
    /\ enumerated = None
    /\ initial_bytes = NoBytes
    /\ counters_fell = [rx |-> FALSE, tx |-> FALSE]
    /\ probe_log = <<>>

\* lines 105-112: one call; dividing by a zero interval raises.
CallCompute ==
    /\ pc = "call"
    /\ IF elapsed_arg = 0 THEN
           /\ Raise("ZeroDivisionError")
           /\ UNCHANGED <<download_mbps, upload_mbps>>
       ELSE
           LET rates == compute_throughput(previous_bytes, current_bytes, elapsed_arg) IN
           /\ download_mbps' = rates[1]
           /\ upload_mbps' = rates[2]
           /\ pc' = "returned"
           /\ UNCHANGED <<error, failed_at, exit_code>>
    /\ UNCHANGED <<args, enumerated, initial_bytes, counters_fell, probe_log,
                   interface, previous_bytes, current_bytes, total_pings,
                   lost_pings, iterations, start, latency, elapsed_arg, output,
                   clock, prev_start, probe_dur, sleep_dur, read_time,
                   prev_read_time, reported_bytes>>

NextCompute == CallCompute

SpecCompute == InitCompute /\ [][NextCompute]_vars

\* ------------------------------------------------- runs with a finite count

InitFinite == Init /\ args.count # None /\ args.count[1] > 0

\* The steps the process takes by itself: every blocking call returns (ping
\* is bounded by -W 1, the sleep by the interval), so a step that can be
\* taken is taken.  The operator's interrupt is under no such obligation.
ProgramStep ==
    \/ ResolveInterface
    \/ InitialSnapshot
    \/ Setup
    \/ LoopTest
    \/ Probe
    \/ Sleep
    \/ ReadCounters
    \/ Report
    \/ Decrement

SpecFinite == InitFinite /\ [][Next]_vars /\ WF_vars(ProgramStep)

\* --------------------------------------------------------------- claims

CountIsFinite == args.count # None /\ args.count[1] > 0

\* The probes among the first k samples that had no response.
LostAmong(k) == Cardinality({i \in 1..k : Samples[i].latency_ms = None})

\* C1: with a finite positive --count n the run never emits more than n
\* samples, it is done only with exactly n samples emitted, and once n
\* samples are out no further tick is begun.
C1_ExactlyCountSamples ==
    CountIsFinite =>
        /\ Len(Samples) <= args.count[1]
        /\ pc = "done" => Len(Samples) = args.count[1]
        /\ Len(Samples) = args.count[1] => pc \in {"dec", "test", "done", "interrupted"}

C1_Witness ==
    /\ pc = "done"
    /\ args.count = Some(3)
    /\ Len(Samples) = 3

\* C2: lost_pings <= total_pings always; the k-th sample carries
\* 100 * (failed probes among the first k) / k, the accumulator's values when
\* it was printed, which lies in 0..100; succeed, succeed, fail gives 100/3.
C2_LossPctOfAccumulator ==
    /\ lost_pings <= total_pings
    /\ pc = "dec" =>
          /\ total_pings = Len(Samples)
          /\ lost_pings = LostAmong(Len(Samples))
    /\ \A k \in 1..Len(Samples) :
          LET loss == Samples[k].packet_loss_pct IN
          /\ loss.den > 0
          /\ loss.num * k = 100 * LostAmong(k) * loss.den
          /\ 0 <= loss.num /\ loss.num <= 100 * loss.den
    /\ ( /\ Len(Samples) = 3
         /\ Samples[1].latency_ms # None
         /\ Samples[2].latency_ms # None
         /\ Samples[3].latency_ms = None )
       => Samples[3].packet_loss_pct.num * 3 = 100 * Samples[3].packet_loss_pct.den

C2_Witness ==
    /\ Len(Samples) = 3
    /\ Samples[1].latency_ms # None
    /\ Samples[2].latency_ms # None
    /\ Samples[3].latency_ms = None
    /\ lost_pings = 1
    /\ total_pings = 3

\* C3: the elapsed time given to compute_throughput is the measured gap
\* between the previous counter read and this one.
C3_ElapsedIsMeasuredGap ==
    pc = "dec" => elapsed_arg = read_time - prev_read_time

\* C4: a run stopped by the operator's interrupt shows no partial tick:
\* every probe counted has its sample printed, and previous_bytes is the
\* snapshot behind the last line printed.
C4_InterruptLeavesNoPartialTick ==
    (pc = "interrupted" /\ Headers # <<>>) =>
        /\ Len(Samples) = total_pings
        /\ previous_bytes = reported_bytes

\* C5: the exit status is 0 when the run ends by count exhaustion or by the
\* operator's interrupt, and non-zero when it ends by a fatal startup error.
C5_ExitStatus ==
    /\ pc \in {"done", "interrupted"} => exit_code = Some(0)
    /\ (pc = "fatal" /\ failed_at \in {"resolve", "snapshot"}) =>
          (exit_code # None /\ exit_code # Some(0))

\* C6: when the probe of a tick ran for less than a positive interval I, the
\* next tick starts between I and I + MaxReadCost after that tick started
\* (the probe's duration is not added to the period).
C6_DriftCorrected ==
    [][ ( /\ pc = "probe"
          /\ pc' = "sleep"
          /\ total_pings > 0
          /\ args.interval > 0
          /\ probe_dur < args.interval )
        => ( /\ start' - start >= args.interval
             /\ start' - start <= args.interval + MaxReadCost ) ]_vars

C6_Witness ==
    /\ pc = "sleep"
    /\ total_pings = 3
    /\ prev_start # None
    /\ args.interval = 3
    /\ start - prev_start[1] = args.interval

RateNonNegative(r) == r.num = 0 \/ (r.num > 0 /\ r.den > 0) \/ (r.num < 0 /\ r.den < 0)

\* C7: every sample printed has download and upload rates >= 0, whatever
\* the counters did and whatever --interval was given.
C7_RatesNonNegative ==
    \A k \in 1..Len(Samples) :
        /\ RateNonNegative(Samples[k].download_mbps)
        /\ RateNonNegative(Samples[k].upload_mbps)

\* The delta the claim states: 0 when the counter fell, the difference otherwise.
ClaimedDelta(prev, cur) == IF cur < prev THEN 0 ELSE cur - prev

\* C8: for elapsed > 0 compute_throughput returns, separately for rx and tx,
\* max(current - previous, 0) * 8 / (1_000_000 * elapsed); 1000/500 ->
\* 9000/4500 over 1 s gives 0.064 and 0.032.
C8_ThroughputFormula ==
    (pc = "returned" /\ elapsed_arg > 0) =>
        /\ download_mbps.num =
              ClaimedDelta(previous_bytes.rx_bytes, current_bytes.rx_bytes) * 8
        /\ download_mbps.den = 1000000 * elapsed_arg
        /\ upload_mbps.num =
              ClaimedDelta(previous_bytes.tx_bytes, current_bytes.tx_bytes) * 8
        /\ upload_mbps.den = 1000000 * elapsed_arg
        /\ ( /\ previous_bytes = [rx_bytes |-> 1000, tx_bytes |-> 500]
             /\ current_bytes = [rx_bytes |-> 9000, tx_bytes |-> 4500]
             /\ elapsed_arg = 1 )
           => /\ download_mbps.num * 1000 = 64 * download_mbps.den
              /\ upload_mbps.num * 1000 = 32 * upload_mbps.den

C8_Witness ==
    /\ pc = "returned"
    /\ elapsed_arg = 3
    /\ previous_bytes = [rx_bytes |-> 9000, tx_bytes |-> 500]
    /\ current_bytes = [rx_bytes |-> 200, tx_bytes |-> 4500]
    /\ download_mbps.num = 0
    /\ upload_mbps.num = 32000

\* C9: when the interface named by --interface is absent at the initial
\* snapshot the run ends there: no probe has run, the loss accumulator is
\* untouched, nothing is on stdout, and nothing more happens.
C9_AbsentInterfaceFailsBeforeLoop ==
    (args.interface # "" /\ failed_at = "snapshot" /\ error = "ValueError") =>
        /\ pc = "fatal"
        /\ output = <<>>
        /\ total_pings = 0
        /\ lost_pings = 0
        /\ latency = None
        /\ clock = 0
        /\ ~ENABLED Next

C9_Witness ==
    /\ args.interface = "eth9"
    /\ pc = "fatal"
    /\ failed_at = "snapshot"
    /\ error = "ValueError"

\* C10: once a counter read inside the loop has failed the run is over: it
\* is fatal, the tick's sample is not printed (one sample fewer than
\* probes), and no step follows (no retry, no probe, no later sample).
C10_ReadFailureIsFatal ==
    (failed_at = "read" /\ error # "KeyboardInterrupt") =>
        /\ pc = "fatal"
        /\ exit_code = Some(1)
        /\ Len(Samples) = total_pings - 1
        /\ ~ENABLED Next

C10_Witness ==
    /\ pc = "fatal"
    /\ failed_at = "read"
    /\ error = "ValueError"
    /\ total_pings = 2
    /\ Len(Samples) = 1

OnlyLoopback(names) == \A j \in 1..Len(names) : names[j] = "lo"

\* C12: without --interface the interface is the first enumerated name that
\* is not "lo" (every name before it is "lo"); when the enumeration is empty
\* or all "lo" the run fails with RuntimeError before anything is printed or
\* probed, and nothing follows.
C12_FirstNonLoopback ==
    args.interface = "" =>
        /\ (pc # "resolve" /\ failed_at # "resolve") =>
              /\ enumerated # None
              /\ interface # "lo"
              /\ \E i \in 1..Len(enumerated[1]) :
                    /\ enumerated[1][i] = interface
                    /\ \A j \in 1..(i - 1) : enumerated[1][j] = "lo"
        /\ (failed_at = "resolve" /\ error = "RuntimeError") =>
              /\ enumerated # None
              /\ OnlyLoopback(enumerated[1])
              /\ pc = "fatal"
              /\ output = <<>>
              /\ total_pings = 0
              /\ probe_log = <<>>
              /\ ~ENABLED Next
        /\ (enumerated # None /\ OnlyLoopback(enumerated[1])) =>
              (failed_at = "resolve" /\ error = "RuntimeError")

C12_Witness ==
    /\ args.interface = ""
    /\ enumerated = Some(<<"wlan0", "lo", "eth0">>)
    /\ interface = "wlan0"
    /\ Len(Samples) = 1

\* C13: the loss accumulator changes only in the probe step of a tick, once
\* per tick: total_pings grows by exactly 1, lost_pings by 1 exactly when
\* that probe had no response, and neither ever falls or is reset.
C13_AccumulatorOncePerTick ==
    [][ /\ total_pings' >= total_pings
        /\ lost_pings' >= lost_pings
        /\ (total_pings' # total_pings \/ lost_pings' # lost_pings) => pc = "probe"
        /\ (pc = "probe" /\ pc' # "interrupted") =>
              /\ total_pings' = total_pings + 1
              /\ Len(probe_log') = Len(probe_log) + 1
              /\ lost_pings' = IF probe_log'[Len(probe_log')] = None
                               THEN lost_pings + 1 ELSE lost_pings
        /\ pc' \in {"sleep", "read", "report"} => total_pings' = Len(Samples)' + 1
        /\ pc' \in {"dec", "test", "probe", "done"} => total_pings' = Len(Samples)' ]_vars

C13_Witness ==
    /\ pc = "sleep"
    /\ total_pings = 3
    /\ lost_pings = 1
    /\ probe_log[2] = None
    /\ probe_log[3] # None

\* C14: the sleep of a tick lasts max(interval - time since t0, 0), never
\* less than 0; when the probe took at least the interval the sleep is 0,
\* no exception rises there, and the tick still prints its sample.
C14_SleepNeverNegative ==
    /\ sleep_dur >= 0
    /\ failed_at = "sleep" => error = "KeyboardInterrupt"
    /\ pc \in {"read", "report", "dec"} =>
          /\ sleep_dur = (IF args.interval - probe_dur > 0
                          THEN args.interval - probe_dur ELSE 0)
          /\ probe_dur >= args.interval => sleep_dur = 0
    /\ (pc = "dec" /\ probe_dur >= args.interval) => Len(Samples) = total_pings

C14_Witness ==
    /\ pc = "dec"
    /\ args.interval = 3
    /\ probe_dur = 4
    /\ sleep_dur = 0
    /\ total_pings = 2
    /\ Len(Samples) = 2

\* C15: with a finite positive count the run ends: it reaches "done" unless
\* an exception ended it first, and the only exceptions are the operator's
\* interrupt and a failure of the counter source; the remaining count falls
\* by exactly 1 per completed tick and the loop exits when it is 0.
C15_FiniteCountTerminates ==
    /\ <>(pc = "done" \/ error # "")
    /\ [](error \notin {"", "KeyboardInterrupt"} =>
            failed_at \in {"resolve", "snapshot", "read"})
    /\ [][ /\ (pc = "dec" /\ pc' = "test") =>
                 (iterations # None /\ iterations' = Some(iterations[1] - 1))
           /\ (pc = "test" /\ pc' = "done") => iterations = Some(0)
           /\ (pc = "test" /\ pc' = "probe") => iterations[1] > 0 ]_vars

C15_Witness ==
    /\ pc = "done"
    /\ error = ""
    /\ args.count = Some(3)
    /\ iterations = Some(0)
    /\ total_pings = 3

RECURSIVE SumDownloadBits(_)
SumDownloadBits(k) ==
    IF k = 0 THEN 0 ELSE Samples[k].download_mbps.num + SumDownloadBits(k - 1)

RECURSIVE SumUploadBits(_)
SumUploadBits(k) ==
    IF k = 0 THEN 0 ELSE Samples[k].upload_mbps.num + SumUploadBits(k - 1)

\* C16: the previous snapshot of a tick is the snapshot the tick before read
\* (the one taken before the loop on tick 1); the counters are read after
\* the tick's probe and sleep; and while rx (tx) never read lower than
\* before, the rx (tx) deltas printed add up to the last snapshot printed
\* minus the first one.
C16_CounterContinuity ==
    /\ (Len(Samples) = 0 /\ pc \in {"setup", "test", "probe", "sleep", "read", "report"})
          => previous_bytes = initial_bytes
    /\ (Len(Samples) >= 1 /\ pc \in {"dec", "test", "probe", "sleep", "read", "done"})
          => previous_bytes = current_bytes
    /\ pc = "report" => previous_bytes = reported_bytes
    /\ pc \in {"report", "dec"} => read_time >= start + probe_dur + sleep_dur
    /\ ~counters_fell.rx =>
          SumDownloadBits(Len(Samples)) =
              8 * (reported_bytes.rx_bytes - initial_bytes.rx_bytes)
    /\ ~counters_fell.tx =>
          SumUploadBits(Len(Samples)) =
              8 * (reported_bytes.tx_bytes - initial_bytes.tx_bytes)

C16_Witness ==
    /\ Len(Samples) = 3
    /\ ~counters_fell.rx
    /\ ~counters_fell.tx
    /\ initial_bytes = [rx_bytes |-> 1000, tx_bytes |-> 500]
    /\ reported_bytes = [rx_bytes |-> 9000, tx_bytes |-> 4500]
    /\ SumDownloadBits(3) = 64000
    /\ SumUploadBits(3) = 32000

\* The probes among the first k that had no response, from the probe log.
LostInLog(k) == Cardinality({i \in 1..k : probe_log[i] = None})

\* C17: between ticks (at the loop test) the samples printed, total_pings,
\* the probes run and the ticks the loop has counted are the same number,
\* and the k-th sample carries the k-th probe's latency and the loss
\* percentage over exactly the first k probes.
C17_OneSamplePerTick ==
    pc = "test" =>
        /\ Len(Samples) = total_pings
        /\ Len(probe_log) = total_pings
        /\ iterations # None => args.count[1] - iterations[1] = Len(Samples)
        /\ \A k \in 1..Len(Samples) :
              LET loss == Samples[k].packet_loss_pct IN
              /\ Samples[k].latency_ms = probe_log[k]
              /\ loss.den > 0
              /\ loss.num * k = 100 * LostInLog(k) * loss.den

C17_Witness ==
    /\ pc = "test"
    /\ Len(Samples) = 3
    /\ probe_log[1] = None
    /\ probe_log[2] # None
    /\ probe_log[3] = None
    /\ iterations = Some(0)

CountIsNotPositive == args.count # None /\ args.count[1] <= 0

\* C18: a --count of 0 or below is no count: iterations is None throughout
\* the loop, every loop test goes on to another tick, and the run is never
\* done by itself.
C18_NonPositiveCountIsUnbounded ==
    [][ CountIsNotPositive =>
          /\ pc' # "done"
          /\ pc' \in {"test", "probe", "sleep", "read", "report", "dec"}
                => iterations' = None
          /\ pc = "test" => pc' \in {"probe", "interrupted"} ]_vars

C18_Witness ==
    /\ CountIsNotPositive
    /\ args.count[1] < 0
    /\ pc = "test"
    /\ Len(Samples) = 2

\* C19: with --interval 0 no division by zero ever happens: every sleep is
\* 0, the divisor given to compute_throughput is 1, and every tick prints
\* its rates.
C19_ZeroIntervalDividesByOne ==
    args.interval = 0 =>
        /\ error # "ZeroDivisionError"
        /\ failed_at = "report" => error = "KeyboardInterrupt"
        /\ sleep_dur = 0
        /\ pc = "dec" =>
              /\ elapsed_arg = 1
              /\ Len(Samples) = total_pings
              /\ Samples[Len(Samples)].download_mbps.den = 1000000
              /\ Samples[Len(Samples)].upload_mbps.den = 1000000

C19_Witness ==
    /\ args.interval = 0
    /\ pc = "dec"
    /\ Len(Samples) = 2
    /\ Samples[2].download_mbps = [num |-> 64000, den |-> 1000000]
    /\ Samples[2].upload_mbps = [num |-> 32000, den |-> 1000000]

====
